---- MODULE Spec2Model ----
(***************************************************************************)
(* vidcut (src/src/dukatools/vidcut.py): time parsing and formatting, the  *)
(* per-input range resolution of main(), the two ffmpeg command builders   *)
(* and the fast -> accurate execution policy.                              *)
(*                                                                         *)
(* Times are integers counted in ticks; a millisecond is TicksPerMs ticks, *)
(* so that values between two milliseconds exist and the rounding of       *)
(* _fmt_time is visible.  Python's Optional[float] is a sequence of length *)
(* 0 (None) or 1.  A Python str that the code takes apart (_parse_time) is *)
(* a sequence of one-character strings; a str that is only passed on (a    *)
(* command token) is a TLA+ string.                                        *)
(***************************************************************************)
EXTENDS Integers, Sequences, FiniteSets, TLC

VARIABLES
    args,       \* the parsed command line (main, lines 153 and 170-174)
    inputs,     \* the expanded, de-duplicated input paths (line 166)
    i,          \* the for loop's position in inputs, from 1 (line 176)
    pc,         \* where main is: "loop", "exec", "fallback" or "exit"
    s,          \* main's local s (lines 180-181)
    d,          \* main's local d (lines 189-195)
    D,          \* main's local D (lines 183-185)
    exit_code,  \* the process's exit status once pc = "exit"
    log,        \* what main did for the input it took up last, in order
    fmt_in,     \* the float handed to _fmt_time
    fmt_out,    \* the str _fmt_time returned, once it has
    parsed      \* the float _parse_time made of fmt_out, once it has

mainVars == <<args, inputs, i, pc, s, d, D, exit_code, log>>
fmtVars == <<fmt_in, fmt_out, parsed>>
vars == <<args, inputs, i, pc, s, d, D, exit_code, log, fmt_in, fmt_out, parsed>>

\* ------------------------------------------------------------- bounds
\* Ticks per millisecond: the resolution of the modelled floats.
TicksPerMs == 5
\* Inputs of one batch (len(inputs) after _expand_inputs).
MaxInputs == 2
\* The probe reports a duration of 1..MaxD seconds, or nothing.
MaxD == 3
\* Whole seconds 0..MaxSec are formatted with every sub-second tick.
MaxSec == 1

TicksPerSec == 1000 * TicksPerMs
Unit == TicksPerSec

\* ------------------------------------------------------------- Optional
None == <<>>
Some(v) == <<v>>
Val(o) == o[1]

Max(a, b) == IF a >= b THEN a ELSE b
Abs(a) == IF a < 0 THEN 0 - a ELSE a

\* ------------------------------------------------------------- strings
DigitChars == <<"0", "1", "2", "3", "4", "5", "6", "7", "8", "9">>
IsDigit(c) == \E k \in 1..10 : DigitChars[k] = c
DigitVal(c) == (CHOOSE k \in 1..10 : DigitChars[k] = c) - 1

RECURSIVE Digits(_)
\* str(n) for n >= 0, as characters.
Digits(n) == IF n < 10 THEN <<DigitChars[n + 1]>>
             ELSE Digits(n \div 10) \o <<DigitChars[(n % 10) + 1]>>

RECURSIVE ZeroFill(_, _)
ZeroFill(cs, w) == IF Len(cs) >= w THEN cs ELSE ZeroFill(<<"0">> \o cs, w)

\* The format spec {n:0wd}: at least w digits, never cut.
Pad(n, w) == ZeroFill(Digits(n), w)

RECURSIVE Join(_)
\* The characters as one str.
Join(cs) == IF cs = <<>> THEN "" ELSE Head(cs) \o Join(Tail(cs))

RECURSIVE Pow10(_)
Pow10(k) == IF k = 0 THEN 1 ELSE 10 * Pow10(k - 1)

RECURSIVE DigitsVal(_)
DigitsVal(cs) == IF cs = <<>> THEN 0
                 ELSE 10 * DigitsVal(SubSeq(cs, 1, Len(cs) - 1)) + DigitVal(cs[Len(cs)])

\* The index of the first c in cs, 0 when there is none.
IndexOf(cs, c) == IF \E k \in 1..Len(cs) : cs[k] = c
                  THEN CHOOSE k \in 1..Len(cs) : cs[k] = c /\ \A j \in 1..(k - 1) : cs[j] # c
                  ELSE 0

RECURSIVE Split(_, _)
\* str.split(c)
Split(cs, c) == LET k == IndexOf(cs, c)
                IN  IF k = 0 THEN <<cs>>
                    ELSE <<SubSeq(cs, 1, k - 1)>> \o Split(SubSeq(cs, k + 1, Len(cs)), c)

\* float(text) for [-]digits[.digits], in ticks (a finer fraction is cut).
ParseFloat(cs) ==
    LET neg  == cs # <<>> /\ cs[1] = "-"
        body == IF neg THEN Tail(cs) ELSE cs
        dot  == IndexOf(body, ".")
        ip   == IF dot = 0 THEN body ELSE SubSeq(body, 1, dot - 1)
        fp   == IF dot = 0 THEN <<>> ELSE SubSeq(body, dot + 1, Len(body))
        mag  == DigitsVal(ip) * TicksPerSec + (DigitsVal(fp) * TicksPerSec) \div Pow10(Len(fp))
    IN  IF neg THEN 0 - mag ELSE mag

\* round(n / den) of Python 3: to the nearest integer, a tie to the even one.
Round(n, den) ==
    LET q == n \div den
        r == n % den
    IN  IF 2 * r < den THEN q
        ELSE IF 2 * r > den THEN q + 1
        ELSE IF q % 2 = 0 THEN q ELSE q + 1

\* ------------------------------------------------------------- _parse_time
EndsWith(cs, suf) == Len(cs) >= Len(suf) /\ SubSeq(cs, Len(cs) - Len(suf) + 1, Len(cs)) = suf

RECURSIVE PadFront(_)
\* while len(parts) < 3: parts.insert(0, 0.0)
PadFront(parts) == IF Len(parts) < 3 THEN PadFront(<<0>> \o parts) ELSE parts

\* The text holds no blank and no capital here, so strip().lower() keeps it.
_parse_time(text) ==
    IF EndsWith(text, <<"m", "s">>)
    THEN ParseFloat(SubSeq(text, 1, Len(text) - 2)) \div 1000
    ELSE LET s1 == IF EndsWith(text, <<"s">>) THEN SubSeq(text, 1, Len(text) - 1) ELSE text
         IN  IF IndexOf(s1, ":") # 0
             THEN LET fields == Split(s1, ":")
                      parts  == PadFront([k \in 1..Len(fields) |-> ParseFloat(fields[k])])
                  IN  parts[1] * 3600 + parts[2] * 60 + parts[3]
             ELSE ParseFloat(s1)

\* ------------------------------------------------------------- _fmt_time
_fmt_time_chars(t) ==
    LET t0    == IF t < 0 THEN 0 ELSE t
        ms    == Round(t0 % TicksPerSec, TicksPerMs)
        total == t0 \div TicksPerSec
        hh    == total \div 3600
        mm    == (total % 3600) \div 60
        ss    == total % 60
    IN  Pad(hh, 2) \o <<":">> \o Pad(mm, 2) \o <<":">> \o Pad(ss, 2) \o <<".">> \o Pad(ms, 3)

_fmt_time(t) == Join(_fmt_time_chars(t))


\* ------------------------------------------------------------- the command line
Opt(S) == {None} \cup {Some(v) : v \in S}

\* The values a time option is given (parsed, in ticks).
StartVals == {0 - Unit, Unit, 3 * Unit}
ToVals == {0 - Unit, 0, 2 * Unit, 4 * Unit}
DurationVals == {0 - Unit, Unit}
TrimStartVals == {0 - 2 * Unit, Unit}
TrimEndVals == {Unit, 3 * Unit}

\* args after parse_args and lines 170-174: an option that is not given, or
\* given as the empty string, is None.
ArgSpace ==
    [start : Opt(StartVals), to_abs : Opt(ToVals), dur : Opt(DurationVals),
     trim_start : Opt(TrimStartVals), trim_end : Opt(TrimEndVals),
     accurate : BOOLEAN, fast : BOOLEAN, overwrite : BOOLEAN, dry_run : BOOLEAN,
     out : Opt({[stem |-> "out", suffix |-> ".mov"]})]

\* The k-th input path, as its stem and its suffix.
InputPath(k) == [stem |-> "in" \o Join(Digits(k)),
                 suffix |-> IF k % 2 = 1 THEN ".mp4" ELSE ".mkv"]

PathStr(p) == p.stem \o p.suffix

\* ------------------------------------------------------------- helpers of main
_derive_output(inp, suffix) == [stem |-> inp.stem \o suffix, suffix |-> inp.suffix]

\* The suffix is lower case already.
_is_mp4(path) == path.suffix \in {".mp4", ".m4v", ".mov"}

\* What the probe can answer: no duration, or one of 1..MaxD seconds.
ProbeResults == {None} \cup {Some(k * Unit) : k \in 1..MaxD}

\* What the child process can exit with; 127 is _run's FileNotFoundError.
RunExitCodes == {0, 1, 127}

ffmpeg == "ffmpeg"

_probe_cmd(inp) == <<ffmpeg, "-hide_banner", "-i", PathStr(inp)>>

_build_fast_cmd(inp, outp, start, dur, overwrite) ==
    <<ffmpeg, "-hide_banner">>
    \o <<IF overwrite THEN "-y" ELSE "-n">>
    \o (IF start # None THEN <<"-ss", _fmt_time(Val(start))>> ELSE <<>>)
    \o <<"-i", PathStr(inp)>>
    \o (IF dur # None THEN <<"-t", _fmt_time(Max(0, Val(dur)))>> ELSE <<>>)
    \o <<"-map", "0", "-c", "copy", "-avoid_negative_ts", "make_zero">>
    \o (IF _is_mp4(outp) THEN <<"-movflags", "+faststart">> ELSE <<>>)
    \o <<PathStr(outp)>>

\* The accurate builder with the start before the input, as the fast one has it.
AccCmdSeekFirst(inp, outp, start, dur, overwrite) ==
    _build_fast_cmd(inp, outp, start, dur, overwrite)

_build_acc_cmd(inp, outp, start, dur, overwrite) ==
    <<ffmpeg, "-hide_banner">>
    \o <<IF overwrite THEN "-y" ELSE "-n", "-i", PathStr(inp)>>
    \o (IF start # None THEN <<"-ss", _fmt_time(Val(start))>> ELSE <<>>)
    \o (IF dur # None THEN <<"-t", _fmt_time(Max(0, Val(dur)))>> ELSE <<>>)
    \o <<"-map", "0", "-c:v", "libx264", "-preset", "veryfast", "-crf", "18", "-c:a", "copy">>
    \o (IF _is_mp4(outp) THEN <<"-movflags", "+faststart">> ELSE <<>>)
    \o <<PathStr(outp)>>

\* ------------------------------------------------------------- range resolution
\* Lines 180-181: s, from --from and --trim-start (a zero trim is falsy).
EffectiveStart ==
    LET s0 == IF args.start # None THEN Val(args.start) ELSE 0
    IN  IF args.trim_start # None /\ Val(args.trim_start) # 0
        THEN Max(0, s0 + Val(args.trim_start))
        ELSE s0

\* Probing done for every input, needed or not.
NeedProbeEager == TRUE

\* Line 184: whether the input is probed.
NeedProbe == args.to_abs # None \/ args.trim_end # None

\* A probe without a duration ending the run whatever was asked.
ProbeFatalAlways(res) == res = None

\* Line 186: whether a probe without a duration ends the run.
ProbeFatal(res) == res = None /\ args.trim_end # None

\* d with --duration winning over --to.
BaseDurationDurFirst(s1) ==
    IF args.dur # None THEN Some(Max(0, Val(args.dur)))
    ELSE IF args.to_abs # None /\ Val(args.to_abs) >= 0 THEN Some(Max(0, Val(args.to_abs) - s1))
    ELSE None

\* d from --to without the clamp to 0.
BaseDurationNoClamp(s1) ==
    IF args.to_abs # None /\ Val(args.to_abs) >= 0 THEN Some(Val(args.to_abs) - s1)
    ELSE IF args.dur # None THEN Some(Max(0, Val(args.dur)))
    ELSE None

\* Lines 189-191: d before --trim-end is looked at.
BaseDuration(s1) ==
    IF args.to_abs # None /\ Val(args.to_abs) >= 0 THEN Some(Max(0, Val(args.to_abs) - s1))
    ELSE IF args.dur # None THEN Some(Max(0, Val(args.dur)))
    ELSE None

\* Line 194: keep_to; `D or 0.0` is 0 for None and for 0.
KeepTo(res) == Max(0, (IF res = None THEN 0 ELSE Val(res)) - Val(args.trim_end))

\* Lines 189-195: d.
ResolveDuration(res, s1) ==
    IF args.trim_end # None THEN Some(KeepTo(res) - s1) ELSE BaseDuration(s1)

\* Line 196: the trim range is refused.
RangeInvalid(res, s1) == args.trim_end # None /\ Val(ResolveDuration(res, s1)) < 0

\* The fast path kept unless both flags are given.
PreferFastUnlessBoth == ~(args.accurate /\ args.fast)

\* Line 200.
prefer_fast == ~args.accurate \/ args.fast

\* --dry-run looked at in the fast branch only.
DryRunStopsFastOnly(fastBranch) == args.dry_run /\ fastBranch

\* Lines 203 and 213: the command is printed, not run.
DryRunStops(fastBranch) == args.dry_run

\* Only exit code 1 taken as a failure of the fast command.
FastFailedOnlyOne(rc) == rc = 1

\* Line 205: the fast command failed.
FastFailed(rc) == rc # 0

\* Lines 202, 207, 212: the start handed to the builders.
StartArg(s1) == IF s1 > 0 THEN Some(s1) ELSE None

\* Line 198: outp; --suffix is left at its default (line 140).
OutputPath(inp) == IF args.out # None THEN Val(args.out) ELSE _derive_output(inp, "_cut")

\* ------------------------------------------------------------- the log
\* One thing main did: ev is "skip", "probe", "print", "run", "fail" or "ok";
\* tag tells the command ("fast", "accurate", "probe") or the failure; cmd is
\* the argument vector; rc the exit code of a run; res the probe's answer.
Event(ev, k, tag, cmd, rc, res) ==
    [ev |-> ev, inp |-> k, tag |-> tag, cmd |-> cmd, rc |-> rc, res |-> res]

NoCmd == <<>>

\* ------------------------------------------------------------- main
\* main at the head of the for loop: the checks of lines 167-168 passed, so
\* there is an input, and --out comes with exactly one.
Init ==
    /\ args \in ArgSpace
    /\ inputs \in {[k \in 1..n |-> InputPath(k)] : n \in 1..MaxInputs}
    /\ args.out # None => Len(inputs) = 1
    /\ i = 1
    /\ pc = "loop"
    /\ s = 0
    /\ d = None
    /\ D = None
    /\ exit_code = None
    /\ log = <<>>
    /\ fmt_in = 0
    /\ fmt_out = None
    /\ parsed = None

\* _fail: the message, then sys.exit(2).
Fail(events, k, tag) ==
    /\ log' = events \o <<Event("fail", k, tag, NoCmd, 0, None)>>
    /\ pc' = "exit"
    /\ exit_code' = Some(2)
    /\ i' = i

\* Line 217 and the next turn of the loop.
Ok(events, k) ==
    /\ log' = events \o <<Event("ok", k, "none", NoCmd, 0, None)>>
    /\ pc' = "loop"
    /\ i' = i + 1
    /\ exit_code' = exit_code

\* A missing input taken as a failure of the run.
SkipMissingAsFailure ==
    /\ pc = "loop"
    /\ i <= Len(inputs)
    /\ log' = <<Event("skip", i, "none", NoCmd, 0, None)>>
    /\ pc' = "exit"
    /\ exit_code' = Some(2)
    /\ UNCHANGED <<args, inputs, i, s, d, D, fmt_in, fmt_out, parsed>>

\* Lines 177-178: the input does not exist.  Whether it does is the file
\* system's answer: SkipMissing and Resolve are both possible for every input.
SkipMissing ==
    /\ pc = "loop"
    /\ i <= Len(inputs)
    /\ log' = <<Event("skip", i, "none", NoCmd, 0, None)>>
    /\ i' = i + 1
    /\ UNCHANGED <<args, inputs, pc, s, d, D, exit_code, fmt_in, fmt_out, parsed>>

\* Lines 180-198: the input exists; s, the probe when it is needed, d.
Resolve ==
    /\ pc = "loop"
    /\ i <= Len(inputs)
    /\ \E res \in (IF NeedProbe THEN ProbeResults ELSE {None}) :
         LET s1 == EffectiveStart
             probed == IF NeedProbe
                       THEN <<Event("probe", i, "probe", _probe_cmd(inputs[i]), 0, res)>>
                       ELSE <<>>
         IN  /\ s' = s1
             /\ D' = res
             /\ IF NeedProbe /\ ProbeFatal(res)
                THEN /\ d' = d
                     /\ Fail(probed, i, "no_duration")
                ELSE /\ d' = ResolveDuration(res, s1)
                     /\ IF RangeInvalid(res, s1)
                        THEN Fail(probed, i, "trim_range")
                        ELSE /\ log' = probed
                             /\ pc' = "exec"
                             /\ UNCHANGED <<i, exit_code>>
    /\ UNCHANGED <<args, inputs, fmt_in, fmt_out, parsed>>

\* Lines 202-203 and 212-213 under --dry-run: the command is printed.
DryRun ==
    /\ pc = "exec"
    /\ DryRunStops(prefer_fast)
    /\ LET outp == OutputPath(inputs[i])
           cmd  == IF prefer_fast
                   THEN _build_fast_cmd(inputs[i], outp, StartArg(s), d, args.overwrite)
                   ELSE _build_acc_cmd(inputs[i], outp, StartArg(s), d, args.overwrite)
           tag  == IF prefer_fast THEN "fast" ELSE "accurate"
       IN  /\ log' = log \o <<Event("print", i, tag, cmd, 0, None)>>
           /\ pc' = "loop"
           /\ i' = i + 1
    /\ UNCHANGED <<args, inputs, s, d, D, exit_code, fmt_in, fmt_out, parsed>>

\* Lines 202-206: the fast command is run.
RunFast ==
    /\ pc = "exec"
    /\ prefer_fast
    /\ ~DryRunStops(TRUE)
    /\ \E rc \in RunExitCodes :
         LET outp == OutputPath(inputs[i])
             cmd  == _build_fast_cmd(inputs[i], outp, StartArg(s), d, args.overwrite)
             ran  == log \o <<Event("run", i, "fast", cmd, rc, None)>>
         IN  IF FastFailed(rc)
             THEN /\ log' = ran
                  /\ pc' = "fallback"
                  /\ UNCHANGED <<i, exit_code>>
             ELSE Ok(ran, i)
    /\ UNCHANGED <<args, inputs, s, d, D, fmt_in, fmt_out, parsed>>

\* The accurate command run again after it failed, twice at most.
RunFallbackRetry ==
    /\ pc = "fallback"
    /\ LET outp == OutputPath(inputs[i])
           cmd2 == _build_acc_cmd(inputs[i], outp, StartArg(s), d, args.overwrite)
       IN  \E rc \in RunExitCodes :
             LET ran == log \o <<Event("run", i, "accurate", cmd2, rc, None)>>
             IN  IF rc = 0 THEN Ok(ran, i)
                 ELSE IF Len(ran) < 5
                      THEN log' = ran /\ UNCHANGED <<pc, i, exit_code>>
                      ELSE Fail(ran, i, "fallback")
    /\ UNCHANGED <<args, inputs, s, d, D, fmt_in, fmt_out, parsed>>

\* Lines 207-210: the accurate command after a failed fast one.
RunFallback ==
    /\ pc = "fallback"
    /\ LET outp == OutputPath(inputs[i])
           cmd2 == _build_acc_cmd(inputs[i], outp, StartArg(s), d, args.overwrite)
       IN  IF args.dry_run
           THEN /\ log' = log \o <<Event("print", i, "accurate", cmd2, 0, None)>>
                /\ pc' = "loop"
                /\ i' = i + 1
                /\ exit_code' = exit_code
           ELSE \E rc \in RunExitCodes :
                  LET ran == log \o <<Event("run", i, "accurate", cmd2, rc, None)>>
                  IN  IF rc # 0 THEN Fail(ran, i, "fallback") ELSE Ok(ran, i)
    /\ UNCHANGED <<args, inputs, s, d, D, fmt_in, fmt_out, parsed>>

\* Lines 212-215: --accurate without --fast.
RunAccurate ==
    /\ pc = "exec"
    /\ ~prefer_fast
    /\ ~DryRunStops(FALSE)
    /\ \E rc \in RunExitCodes :
         LET outp == OutputPath(inputs[i])
             cmd  == _build_acc_cmd(inputs[i], outp, StartArg(s), d, args.overwrite)
             ran  == log \o <<Event("run", i, "accurate", cmd, rc, None)>>
         IN  IF rc # 0 THEN Fail(ran, i, "accurate") ELSE Ok(ran, i)
    /\ UNCHANGED <<args, inputs, s, d, D, fmt_in, fmt_out, parsed>>

\* The for loop is over: main returns.
Finish ==
    /\ pc = "loop"
    /\ i > Len(inputs)
    /\ pc' = "exit"
    /\ exit_code' = Some(0)
    /\ UNCHANGED <<args, inputs, i, s, d, D, log, fmt_in, fmt_out, parsed>>

Next ==
    \/ SkipMissing
    \/ Resolve
    \/ DryRun
    \/ RunFast
    \/ RunFallback
    \/ RunAccurate
    \/ Finish

Spec == Init /\ [][Next]_vars

\* ------------------------------------------------------------- the formatter alone
\* The seconds whose every sub-second tick is formatted.
FmtSeconds == (0..MaxSec) \cup {59, 3599, 3661}

FmtInputs == {sec * TicksPerSec + f : sec \in FmtSeconds, f \in 0..(TicksPerSec - 1)}

InitFmt ==
    /\ fmt_in \in FmtInputs
    /\ fmt_out = None
    /\ parsed = None
    /\ args = [start |-> None, to_abs |-> None, dur |-> None, trim_start |-> None,
               trim_end |-> None, accurate |-> FALSE, fast |-> FALSE,
               overwrite |-> FALSE, dry_run |-> FALSE, out |-> None]
    /\ inputs = <<>>
    /\ i = 1
    /\ pc = "exit"
    /\ s = 0
    /\ d = None
    /\ D = None
    /\ exit_code = Some(0)
    /\ log = <<>>

Format ==
    /\ fmt_out = None
    /\ fmt_out' = Some(_fmt_time_chars(fmt_in))
    /\ UNCHANGED <<fmt_in, parsed>>
    /\ UNCHANGED mainVars

Parse ==
    /\ fmt_out # None
    /\ parsed = None
    /\ parsed' = Some(_parse_time(Val(fmt_out)))
    /\ UNCHANGED <<fmt_in, fmt_out>>
    /\ UNCHANGED mainVars

NextFmt ==
    \/ Format
    \/ Parse

SpecFmt == InitFmt /\ [][NextFmt]_vars

\* ------------------------------------------------------------- reading the log
IsRun(e) == e.ev = "run"
IsProbe(e) == e.ev = "probe"
\* A command that was synthesized: run, or printed by --dry-run.
IsCmd(e) == e.ev \in {"run", "print"}

Runs == SelectSeq(log, IsRun)
Probes == SelectSeq(log, IsProbe)
Cmds == SelectSeq(log, IsCmd)

Has(ev) == \E p \in 1..Len(log) : log[p].ev = ev
Failed(tag) == \E p \in 1..Len(log) : log[p].ev = "fail" /\ log[p].tag = tag

\* The input of the log got past the existence test (line 177).
TakenUp == pc \in {"exec", "fallback"} \/ (log # <<>> /\ log[1].ev # "skip")

\* The range of the log's input was resolved and handed on (line 198 reached).
Resolved == pc \in {"exec", "fallback"} \/ Has("print") \/ Has("run")

Count(seq, x) == Cardinality({p \in 1..Len(seq) : seq[p] = x})
Pos(seq, x) == CHOOSE p \in 1..Len(seq) : seq[p] = x

\* ------------------------------------------------------------- C1
\* Neither accurate-only nor dry-run.
DefaultMode == (~args.accurate \/ args.fast) /\ ~args.dry_run

\* C1: in default mode, a fast command that exits non-zero (127 included) is
\* followed at once by the accurate command for the same input, and after a
\* fast command that exits 0 no accurate command is run for that input.
C1_FallbackAfterFastFailure ==
    DefaultMode =>
        \A p \in 1..Len(Runs) :
            Runs[p].tag = "fast" =>
                IF Runs[p].rc # 0
                THEN \/ /\ p < Len(Runs)
                        /\ Runs[p + 1].tag = "accurate"
                        /\ Runs[p + 1].inp = Runs[p].inp
                     \/ /\ p = Len(Runs)
                        /\ pc = "fallback"
                        /\ i = Runs[p].inp
                        /\ log[Len(log)] = Runs[p]
                ELSE \A q \in 1..Len(Runs) : Runs[q].tag # "accurate"

\* The fast command was not found (127) and the accurate one ran next.
C1_Witness ==
    /\ DefaultMode
    /\ Len(Runs) = 2
    /\ Runs[1].tag = "fast" /\ Runs[1].rc = 127
    /\ Runs[2].tag = "accurate"

\* ------------------------------------------------------------- C2
\* C2: a failure of one input does not end the run: when the process ends,
\* every input of the batch was taken up (the loop went past the last one, or
\* the input that failed was the last).
C2_BatchContinuesAfterFailure ==
    pc = "exit" => i >= Len(inputs)

\* ------------------------------------------------------------- C3
\* What is run for an input in accurate mode: the accurate command alone, and
\* its failure ends the input's processing.
AccurateAlone ==
    /\ \A p \in 1..Len(Runs) : Runs[p].tag = "accurate"
    /\ Len(Runs) <= 1
    /\ pc # "fallback"
    /\ (Resolved /\ ~args.dry_run /\ pc # "exec") => Len(Runs) = 1
    /\ (Len(Runs) = 1 /\ Runs[1].rc # 0) =>
           /\ pc = "exit"
           /\ log[Len(log)].ev = "fail"
           /\ log[Len(log) - 1] = Runs[1]

\* C3 as stated: with the accurate flag set, whatever the other flags, the
\* fast command is never run, the accurate command is the only one run, and
\* its non-zero exit is terminal.
C3_AccurateFlagNeverFast == args.accurate => AccurateAlone

\* C3 amended: the same with the accurate flag set and the fast flag not set.
\* With both flags the fast command is the first one run.
C3_AccurateOnlyNeverFast ==
    /\ (args.accurate /\ ~args.fast) => AccurateAlone
    /\ (args.accurate /\ args.fast /\ Len(Runs) > 0) => Runs[1].tag = "fast"

\* Accurate-only, the accurate command failed and nothing followed.
C3_Witness ==
    /\ args.accurate /\ ~args.fast
    /\ Len(Runs) = 1
    /\ Runs[1].tag = "accurate" /\ Runs[1].rc # 0
    /\ pc = "exit"

\* ------------------------------------------------------------- C4
EndSupplied == args.to_abs # None \/ args.trim_end # None

\* C4: an input is probed never when neither --to nor --trim-end is given,
\* exactly once (before anything else, and on its own path) when one of them
\* is and the input is taken up; the D that resolution uses is the answer of
\* this input's own probe.
C4_ProbeLazyOnce ==
    /\ Len(Probes) = (IF EndSupplied /\ TakenUp THEN 1 ELSE 0)
    /\ (EndSupplied /\ TakenUp) =>
           /\ IsProbe(log[1])
           /\ log[1].cmd = <<"ffmpeg", "-hide_banner", "-i",
                             inputs[log[1].inp].stem \o inputs[log[1].inp].suffix>>
           /\ pc \in {"exec", "fallback"} => (log[1].inp = i /\ D = log[1].res)
    /\ (~EndSupplied /\ pc \in {"exec", "fallback"}) => D = None

\* The second input was probed, after the first had been, with its own answer.
C4_Witness ==
    /\ i = 2
    /\ pc = "exec"
    /\ args.to_abs = None /\ args.trim_end # None
    /\ Len(Probes) = 1
    /\ D = Some(2 * Unit)
    /\ Probes[1].inp = 2

\* ------------------------------------------------------------- C5
\* C5: under --dry-run no fast and no accurate command is run, whatever the
\* accurate and fast flags; the input is still resolved, probed when --to or
\* --trim-end asks for it, and its command printed.
C5_DryRunRunsNothing ==
    args.dry_run =>
        /\ Len(Runs) = 0
        /\ pc # "fallback"
        /\ \A p \in 1..Len(log) :
               log[p].ev = "print" =>
                   /\ log[p].tag = (IF args.accurate /\ ~args.fast THEN "accurate" ELSE "fast")
                   /\ p = Len(log)
                   /\ p = (IF EndSupplied THEN 2 ELSE 1)
                   /\ EndSupplied => IsProbe(log[1])
                   /\ log[p].cmd # <<>>

\* A dry run in accurate mode that probed and printed the accurate command.
C5_Witness ==
    /\ args.dry_run /\ args.accurate /\ ~args.fast
    /\ Len(log) = 2
    /\ IsProbe(log[1])
    /\ log[2].ev = "print" /\ log[2].tag = "accurate"

\* ------------------------------------------------------------- C6
\* --to lies before the effective start, and --trim-end is not given.
EndBeforeStart ==
    /\ args.to_abs # None
    /\ args.trim_end = None
    /\ Val(args.to_abs) < EffectiveStart

NonNegative(o) == o = None \/ Val(o) >= 0

NonNegativeTimes ==
    /\ NonNegative(args.start) /\ NonNegative(args.to_abs) /\ NonNegative(args.dur)
    /\ NonNegative(args.trim_start) /\ NonNegative(args.trim_end)

\* C6 as stated (for times that are not negative, as start=50, end=40): such
\* an input fails with an invalid-range error; no command is built or run
\* for it.
C6_EndBeforeStartFails ==
    (EndBeforeStart /\ NonNegativeTimes /\ TakenUp) =>
        /\ pc \notin {"exec", "fallback"}
        /\ Len(Cmds) = 0
        /\ Failed("trim_range")

\* C6 amended: such an input does not fail; for an end >= 0 the duration is 0
\* whatever the probe answers, and the command is built with -t 00:00:00.000.
\* The invalid-range failure is that of a --trim-end range alone.
C6_EndBeforeStartClamps ==
    /\ Failed("trim_range") => args.trim_end # None
    /\ (EndBeforeStart /\ TakenUp) =>
        /\ ~Failed("trim_range")
        /\ ~Failed("no_duration")
        /\ Resolved
        /\ Val(args.to_abs) >= 0 =>
               /\ d = Some(0)
               /\ \A p \in 1..Len(Cmds) :
                      /\ Count(Cmds[p].cmd, "-t") = 1
                      /\ Cmds[p].cmd[Pos(Cmds[p].cmd, "-t") + 1] = "00:00:00.000"

\* start 3 s, end 2 s, the probe without an answer: the fast command was run.
C6_Witness ==
    /\ args.start = Some(3 * Unit) /\ args.to_abs = Some(2 * Unit)
    /\ args.trim_start = None /\ args.trim_end = None
    /\ Len(log) = 2
    /\ IsProbe(log[1]) /\ log[1].res = None
    /\ IsRun(log[2]) /\ log[2].tag = "fast"
    /\ d = Some(0)

\* ------------------------------------------------------------- C7
ProbeAbsent == Len(Probes) = 1 /\ Probes[1].res = None

\* C7: with --trim-end, a probe without an answer fails the input before any
\* command is built; with --to alone it does not, and the cut goes on.
C7_AbsentProbeFatalForTrimEnd ==
    ProbeAbsent =>
        IF args.trim_end # None
        THEN /\ Failed("no_duration")
             /\ Len(log) = 2
             /\ Len(Cmds) = 0
             /\ pc = "exit"
        ELSE /\ ~Failed("no_duration")
             /\ ~Failed("trim_range")
             /\ Resolved
             /\ Len(log) >= 2 => IsCmd(log[2])

\* --trim-end, no answer from the probe: the run ended there.
C7_Witness ==
    /\ args.trim_end # None
    /\ ProbeAbsent
    /\ Failed("no_duration")
    /\ pc = "exit"

\* ------------------------------------------------------------- C8
\* The reference resolution of the claim.
RefStart ==
    (IF args.start # None THEN Val(args.start) ELSE 0)
    + (IF args.trim_start # None THEN Val(args.trim_start) ELSE 0)

RefDuration(total) ==
    IF args.trim_end # None THEN Some(Max(0, total - Val(args.trim_end)) - RefStart)
    ELSE IF args.to_abs # None THEN Some(Max(0, Val(args.to_abs) - RefStart))
    ELSE IF args.dur # None THEN args.dur
    ELSE None

\* The probe gave a duration wherever --trim-end needs one.
ProbeYields == args.trim_end # None => (Len(Probes) = 1 /\ Probes[1].res # None)

RefTotal == IF Len(Probes) = 1 /\ Probes[1].res # None THEN Val(Probes[1].res) ELSE 0

MatchesReference ==
    (TakenUp /\ ProbeYields) =>
        IF args.trim_end # None /\ Val(RefDuration(RefTotal)) < 0
        THEN Failed("trim_range") /\ ~Resolved
        ELSE /\ Resolved
             /\ s = RefStart
             /\ d = RefDuration(RefTotal)

\* C8 as stated: for every combination of the five time inputs the resolved
\* (s, d) is the reference's.
C8_ResolvedEqualsReference == MatchesReference

\* C8 amended: for every combination of non-negative time inputs the resolved
\* (s, d) is the reference's.
C8_ResolvedEqualsReferenceNonNeg == NonNegativeTimes => MatchesReference

\* All five given, non-negative: --trim-end decided d, against --to and -t.
C8_Witness ==
    /\ NonNegativeTimes
    /\ args.start # None /\ args.to_abs = Some(4 * Unit) /\ args.dur # None
    /\ args.trim_start # None /\ args.trim_end # None
    /\ pc = "exec"
    /\ D = Some(3 * Unit)
    /\ s = 2 * Unit
    /\ d = Some(0)

\* ------------------------------------------------------------- C9
\* The text after the "." of HH:MM:SS.mmm.
MsField(cs) == SubSeq(cs, IndexOf(cs, ".") + 1, Len(cs))

ShapeOk(cs) ==
    /\ Len(cs) = 12
    /\ cs[3] = ":" /\ cs[6] = ":" /\ cs[9] = "."
    /\ \A k \in {1, 2, 4, 5, 7, 8, 10, 11, 12} : IsDigit(cs[k])
    /\ Len(MsField(cs)) = 3

\* C9: for t >= 0, _parse_time(_fmt_time(t)) is within a millisecond of t and
\* _fmt_time(t) has the shape HH:MM:SS.mmm with three millisecond digits.
C9_FormatRoundTrips ==
    /\ fmt_out # None => ShapeOk(Val(fmt_out))
    /\ parsed # None => Abs(Val(parsed) - fmt_in) <= TicksPerMs

\* ------------------------------------------------------------- C10
\* C10: in a synthesized command, -ss (when there is a start) stands before -i
\* in the fast command and after it in the accurate one; -t is there exactly
\* when d is bounded; -y or -n, one of them, follows --overwrite; the output
\* path is the last token.
C10_CommandLayout ==
    \A p \in 1..Len(Cmds) :
        LET e   == Cmds[p]
            cmd == e.cmd
        IN  /\ Count(cmd, "-i") = 1
            /\ Count(cmd, "-ss") = (IF s > 0 THEN 1 ELSE 0)
            /\ Count(cmd, "-ss") = 1 =>
                   IF e.tag = "fast"
                   THEN Pos(cmd, "-ss") < Pos(cmd, "-i")
                   ELSE Pos(cmd, "-ss") > Pos(cmd, "-i")
            /\ Count(cmd, "-t") = (IF d # None THEN 1 ELSE 0)
            /\ Count(cmd, "-y") = (IF args.overwrite THEN 1 ELSE 0)
            /\ Count(cmd, "-n") = (IF args.overwrite THEN 0 ELSE 1)
            /\ cmd[Len(cmd)] = (IF args.out # None THEN "out.mov"
                                 ELSE inputs[e.inp].stem \o "_cut" \o inputs[e.inp].suffix)

\* An accurate command with a start and a duration was run.
C10_Witness ==
    \E p \in 1..Len(Runs) :
        /\ Runs[p].tag = "accurate"
        /\ Count(Runs[p].cmd, "-ss") = 1
        /\ Count(Runs[p].cmd, "-t") = 1
        /\ Pos(Runs[p].cmd, "-i") < Pos(Runs[p].cmd, "-ss")

\* ------------------------------------------------------------- C11
\* C11: an input that does not exist is reported and nothing else is done for
\* it: no probe, no command printed or run; the loop goes on to the next
\* input, and a run that ends on a skipped input ends with status 0.
C11_MissingInputSkipped ==
    Has("skip") =>
        /\ Len(log) = 1
        /\ Len(Probes) = 0
        /\ Len(Cmds) = 0
        /\ i = log[1].inp + 1
        /\ pc \in {"loop", "exit"}
        /\ pc = "loop" => exit_code = None
        /\ pc = "exit" => (exit_code = Some(0) /\ i = Len(inputs) + 1)

\* Both inputs looked at, the second one missing: main returned with status 0.
C11_Witness ==
    /\ Len(inputs) = 2
    /\ log # <<>>
    /\ log[1].ev = "skip" /\ log[1].inp = 2
    /\ NeedProbe
    /\ pc = "exit"
    /\ exit_code = Some(0)

\* ------------------------------------------------------------- C12
\* The token after flag in cmd is the formatted v, and reads back as >= 0.
TokenNonNegative(cmd, flag, v) ==
    Count(cmd, flag) = 1 =>
        /\ cmd[Pos(cmd, flag) + 1] = Join(_fmt_time_chars(v))
        /\ _fmt_time_chars(v)[1] # "-"
        /\ _parse_time(_fmt_time_chars(v)) >= 0

\* The -ss and -t tokens of every synthesized command encode a time >= 0.
TokensNonNegative ==
    \A p \in 1..Len(Cmds) :
        /\ TokenNonNegative(Cmds[p].cmd, "-ss", s)
        /\ d # None => TokenNonNegative(Cmds[p].cmd, "-t", Val(d))

\* The resolved duration is unbounded or >= 0.
DurationNonNegative == Resolved => (d = None \/ Val(d) >= 0)

\* C12: for every combination of parsed inputs, negative ones included, the
\* resolved range has an effective start >= 0 and a duration that is unbounded
\* or >= 0, and every -ss and -t token encodes a time >= 0.
C12_ResolvedRangeNonNegative ==
    /\ Resolved => s >= 0
    /\ DurationNonNegative
    /\ TokensNonNegative

\* ------------------------------------------------------------- C13
FastRuns == SelectSeq(Runs, LAMBDA e : e.tag = "fast")
AccurateRuns == SelectSeq(Runs, LAMBDA e : e.tag = "accurate")

\* What was run for the input of the log: the fast command at most once, the
\* accurate one at most once and never before the fast one; once the accurate
\* command has returned the input is done with (OK, or the failure).
RunsOnce ==
    /\ Len(FastRuns) <= 1
    /\ Len(AccurateRuns) <= 1
    /\ Len(Runs) <= 2
    /\ Len(Runs) = 2 => (Runs[1].tag = "fast" /\ Runs[2].tag = "accurate")
    /\ \A p \in 1..Len(Runs) : Runs[p].inp = Runs[1].inp
    /\ Len(AccurateRuns) = 1 =>
           /\ pc \in {"loop", "exit"}
           /\ Len(log) >= 2
           /\ log[Len(log) - 1] = AccurateRuns[1]
           /\ log[Len(log)].ev = (IF AccurateRuns[1].rc = 0 THEN "ok" ELSE "fail")
    /\ pc = "fallback" => (Len(Runs) = 1 /\ Runs[1].tag = "fast" /\ Runs[1].rc # 0)

\* The loop never goes back to an input, and while an input is being cut its
\* log only grows.
NoWayBack ==
    /\ i' >= i
    /\ (pc \in {"exec", "fallback"} /\ pc' \in {"exec", "fallback"}) => i' = i
    /\ pc \in {"exec", "fallback"} =>
           (Len(log') >= Len(log) /\ SubSeq(log', 1, Len(log)) = log)
    /\ pc = "exit" => UNCHANGED log

\* C13: for every input the fast command is run at most once and the accurate
\* command at most once, never before the fast one; after the accurate command
\* returns nothing more is run for the input: at most two runs per input.
C13_NoRetry == []RunsOnce /\ [][NoWayBack]_vars

\* Both commands were run for an input, the accurate one failed too.
C13_Witness ==
    /\ Len(Runs) = 2
    /\ Runs[1].tag = "fast" /\ Runs[1].rc # 0
    /\ Runs[2].tag = "accurate" /\ Runs[2].rc # 0
    /\ pc = "exit"

====
